---- MODULE Spec2Model ----
(***************************************************************************)
(* Workday Costing Allocations converter (src/main.py).                    *)
(*                                                                         *)
(* Text is modelled as a sequence of one-character strings, a spreadsheet  *)
(* cell as a record [t, s, m, e]:                                          *)
(*    t = "nan"   an empty cell (pandas NaN),                              *)
(*    t = "str"   a text cell with characters s,                           *)
(*    t = "num"   a numeric cell of value m / 10^e,                        *)
(*    t = "date"  a date cell, m = yyyymmdd.                               *)
(* Numbers are exact decimals m / 10^e (binary rounding is not modelled).  *)
(***************************************************************************)
EXTENDS Integers, Sequences, FiniteSets, TLC

VARIABLES
    pc,               \* position of main()
    steps,            \* the steps main() has run, in order
    outdir,           \* OUTPUT_DIR exists on disk
    disk,             \* output path -> "absent" | "old" | "new"
    header_data,      \* OutPutClass.EffectiveDate read by main
    output_file_path, \* path computed by main
    df,               \* the data table as read (line 179), [cols, rows]
    df_out,           \* result of ReadInCostingAllocationsFile in main
    dialogs,          \* message boxes shown, in order
    arg,              \* argument of the function under test
    ret               \* its return value

vars == <<pc, steps, outdir, disk, header_data, output_file_path, df, df_out,
          dialogs, arg, ret>>

(***************************************************************************)
(* Bounds of the model.                                                    *)
(***************************************************************************)
MaxNameLen == 5      \* length of Worker cells enumerated exhaustively
MaxCCLen == 4        \* length of Cost Center cells enumerated exhaustively
MaxNumLen == 3       \* length of FTE / Distribution cells enumerated
MaxBudgetLen == 3    \* length of Program / Grant / Gift cells enumerated
MaxHeaderRows == 2   \* rows of the header block (the code reads up to 15)
MaxRows == 2         \* data rows of the table

(***************************************************************************)
(* Characters and Python's str methods.                                    *)
(***************************************************************************)
UpperChars == <<"A","B","C","D","E","F","G","H","I","J","K","L","M",
                "N","O","P","Q","R","S","T","U","V","W","X","Y","Z">>
LowerChars == <<"a","b","c","d","e","f","g","h","i","j","k","l","m",
                "n","o","p","q","r","s","t","u","v","w","x","y","z">>
DigitChars == <<"0","1","2","3","4","5","6","7","8","9">>

Range(f) == {f[i] : i \in DOMAIN f}

IsSpace(c) == c \in {" ", "\t"}
IsDigit(c) == c \in Range(DigitChars)
IsUpper(c) == c \in Range(UpperChars)
IsLower(c) == c \in Range(LowerChars)
\* the characters the regular expression class \w matches
IsWord(c) == IsDigit(c) \/ IsUpper(c) \/ IsLower(c) \/ c = "_"

DigitVal(c) == (CHOOSE i \in 1..10 : DigitChars[i] = c) - 1

LowerChar(c) == IF IsUpper(c) THEN LowerChars[CHOOSE i \in 1..26 : UpperChars[i] = c] ELSE c
UpperChar(c) == IF IsLower(c) THEN UpperChars[CHOOSE i \in 1..26 : LowerChars[i] = c] ELSE c

\* str.lower(), str.upper()
Lower(s) == [i \in 1..Len(s) |-> LowerChar(s[i])]
Upper(s) == [i \in 1..Len(s) |-> UpperChar(s[i])]

RECURSIVE LStrip(_)
LStrip(s) == IF s = <<>> THEN <<>>
             ELSE IF IsSpace(Head(s)) THEN LStrip(Tail(s)) ELSE s

RECURSIVE RStrip(_)
RStrip(s) == IF s = <<>> THEN <<>>
             ELSE IF IsSpace(s[Len(s)]) THEN RStrip(SubSeq(s, 1, Len(s) - 1)) ELSE s

\* str.strip()
Strip(s) == RStrip(LStrip(s))

\* str.replace(c, "")
RECURSIVE RemoveChar(_, _)
RemoveChar(s, c) == IF s = <<>> THEN <<>>
                    ELSE IF Head(s) = c THEN RemoveChar(Tail(s), c)
                    ELSE <<Head(s)>> \o RemoveChar(Tail(s), c)

\* str.replace(c, d) for single characters
ReplaceChar(s, c, d) == [i \in 1..Len(s) |-> IF s[i] = c THEN d ELSE s[i]]

\* length of the longest prefix of s made of non-whitespace
RECURSIVE TokenLen(_)
TokenLen(s) == IF s = <<>> \/ IsSpace(Head(s)) THEN 0 ELSE 1 + TokenLen(Tail(s))

\* str.split() with no argument: the whitespace-delimited tokens
RECURSIVE SplitWs(_)
SplitWs(s) ==
    LET t == LStrip(s) IN
    IF t = <<>> THEN <<>>
    ELSE LET n == TokenLen(t) IN
         <<SubSeq(t, 1, n)>> \o SplitWs(SubSeq(t, n + 1, Len(t)))

\* length of the longest prefix of s without the character c
RECURSIVE FieldLen(_, _)
FieldLen(s, c) == IF s = <<>> \/ Head(s) = c THEN 0 ELSE 1 + FieldLen(Tail(s), c)

\* str.split(c): the fields between occurrences of c, empty ones included
RECURSIVE SplitOn(_, _)
SplitOn(s, c) ==
    LET n == FieldLen(s, c) IN
    IF n = Len(s) THEN <<s>>
    ELSE <<SubSeq(s, 1, n)>> \o SplitOn(SubSeq(s, n + 2, Len(s)), c)

RECURSIVE Pow10(_)
Pow10(n) == IF n = 0 THEN 1 ELSE 10 * Pow10(n - 1)

\* decimal digits of a natural number
RECURSIVE NatChars(_)
NatChars(n) == IF n < 10 THEN <<DigitChars[n + 1]>>
               ELSE NatChars(n \div 10) \o <<DigitChars[(n % 10) + 1]>>

\* value of a sequence of digits
RECURSIVE DigitsVal(_)
DigitsVal(s) == IF s = <<>> THEN 0
                ELSE 10 * DigitsVal(SubSeq(s, 1, Len(s) - 1)) + DigitVal(s[Len(s)])

\* n as w digits, zero padded on the left
RECURSIVE PadNat(_, _)
PadNat(n, w) == IF w = 0 THEN <<>> ELSE PadNat(n \div 10, w - 1) \o <<DigitChars[(n % 10) + 1]>>

AllDigits(s) == \A i \in 1..Len(s) : IsDigit(s[i])

(***************************************************************************)
(* Cells and values.                                                       *)
(***************************************************************************)
NaN == [t |-> "nan", s |-> <<>>, m |-> 0, e |-> 0]
Text(s) == [t |-> "str", s |-> s, m |-> 0, e |-> 0]
NumCell(m, e) == [t |-> "num", s |-> <<>>, m |-> m, e |-> e]
DateCell(ymd) == [t |-> "date", s |-> <<>>, m |-> ymd, e |-> 0]

\* pd.isna
IsNa(cell) == cell.t = "nan"

\* a number m / 10^e with no trailing zero in its fraction
RECURSIVE NormNum(_, _)
NormNum(m, e) == IF e > 0 /\ m % 10 = 0 THEN NormNum(m \div 10, e - 1)
                 ELSE [k |-> "num", m |-> m, e |-> e]

Blank == [k |-> "nan", m |-> 0, e |-> 0]
Raised == [k |-> "raise", m |-> 0, e |-> 0]

\* repr of a Python float m / 10^e (no exponent notation in the modelled range)
FractionChars(n) == IF n.m = 0 THEN <<"0">> ELSE PadNat(n.m, n.e)

UnsignedChars(a, e) ==
    NatChars(a \div Pow10(e)) \o <<".">> \o FractionChars(NormNum(a % Pow10(e), e))

FloatChars(m, e) ==
    IF m < 0 THEN <<"-">> \o UnsignedChars(-m, e) ELSE UnsignedChars(m, e)

MidnightChars == <<" ","0","0",":","0","0",":","0","0">>

\* str(Timestamp)
TimestampChars(ymd) ==
    PadNat(ymd \div 10000, 4) \o <<"-">> \o PadNat((ymd \div 100) % 100, 2) \o <<"-">>
    \o PadNat(ymd % 100, 2) \o MidnightChars

\* str(cell) of a cell that is not NaN
Str(cell) == CASE cell.t = "str" -> cell.s
               [] cell.t = "num" -> FloatChars(cell.m, cell.e)
               [] cell.t = "date" -> TimestampChars(cell.m)
               [] OTHER -> <<"n","a","n">>

(***************************************************************************)
(* Library functions the program calls.                                    *)
(***************************************************************************)
SetMax(S) == CHOOSE x \in S : \A y \in S : y <= x

\* float(s) for s made of digits, "." and "-" only (what line 135 leaves):
\* an optional sign, then digits with at most one point and at least one
\* digit; anything else raises ValueError.
FloatOfParts(neg, ip, fp) ==
    IF AllDigits(ip) /\ AllDigits(fp) /\ Len(ip) + Len(fp) > 0
    THEN NormNum((IF neg THEN -1 ELSE 1) * DigitsVal(ip \o fp), Len(fp))
    ELSE Raised

FloatOfUnsigned(neg, u, n) == FloatOfParts(neg, SubSeq(u, 1, n), SubSeq(u, n + 2, Len(u)))

FloatOfSigned(neg, u) == FloatOfUnsigned(neg, u, FieldLen(u, "."))

FloatOf(s) ==
    IF s # <<>> /\ Head(s) = "-" THEN FloatOfSigned(TRUE, Tail(s)) ELSE FloatOfSigned(FALSE, s)

\* pd.to_numeric(cell, errors="coerce") of one cell: a number stays, text is
\* parsed after surrounding whitespace is skipped, everything that is not a
\* decimal numeral becomes NaN.
CoerceNumeric(v) == IF v.k = "num" THEN v ELSE Blank

NumericOfText(s) ==
    IF \A i \in 1..Len(s) : IsDigit(s[i]) \/ s[i] \in {".", "-"}
    THEN CoerceNumeric(FloatOf(s))
    ELSE Blank

ToNumeric(cell) ==
    CASE cell.t = "num" -> NormNum(cell.m, cell.e)
      [] cell.t = "str" -> NumericOfText(Strip(cell.s))
      [] OTHER -> Blank

IsLeap(y) == (y % 4 = 0 /\ y % 100 # 0) \/ y % 400 = 0
DaysInMonth(y, mo) == IF mo = 2 THEN (IF IsLeap(y) THEN 29 ELSE 28)
                      ELSE IF mo \in {4, 6, 9, 11} THEN 30 ELSE 31
ValidYmd(y, mo, d) == y >= 1 /\ mo \in 1..12 /\ d \in 1..DaysInMonth(y, mo)

NoDate == [ok |-> FALSE, ymd |-> 0]
\* pd.to_datetime of text, for the shapes of date text the model draws:
\* YYYY-MM-DD, optionally followed by " 00:00:00", and MM/DD/YYYY; any other
\* text does not parse.
DateOfYmd(y, mo, d) ==
    IF ValidYmd(y, mo, d) THEN [ok |-> TRUE, ymd |-> y * 10000 + mo * 100 + d] ELSE NoDate

DateOfShape(s) ==
    IF Len(s) = 10 /\ s[5] = "-" /\ s[8] = "-"
       /\ AllDigits(SubSeq(s, 1, 4)) /\ AllDigits(SubSeq(s, 6, 7))
       /\ AllDigits(SubSeq(s, 9, 10))
    THEN DateOfYmd(DigitsVal(SubSeq(s, 1, 4)), DigitsVal(SubSeq(s, 6, 7)),
                   DigitsVal(SubSeq(s, 9, 10)))
    ELSE IF Len(s) = 10 /\ s[3] = "/" /\ s[6] = "/"
            /\ AllDigits(SubSeq(s, 1, 2)) /\ AllDigits(SubSeq(s, 4, 5))
            /\ AllDigits(SubSeq(s, 7, 10))
    THEN DateOfYmd(DigitsVal(SubSeq(s, 7, 10)), DigitsVal(SubSeq(s, 1, 2)),
                   DigitsVal(SubSeq(s, 4, 5)))
    ELSE NoDate

DateOfStripped(s) ==
    IF Len(s) = 19 /\ SubSeq(s, 11, 19) = MidnightChars
    THEN DateOfShape(SubSeq(s, 1, 10))
    ELSE DateOfShape(s)

DateOfText(s) == DateOfStripped(Strip(s))

\* pd.to_datetime(cell, errors="coerce"): NaT when the cell does not parse
ToDatetime(cell) ==
    CASE cell.t = "date" -> [ok |-> TRUE, ymd |-> cell.m]
      [] cell.t = "str" -> DateOfText(cell.s)
      [] OTHER -> NoDate

\* Timestamp.strftime with the fields month, day, year joined by sep
Strftime(ymd, sep) ==
    PadNat((ymd \div 100) % 100, 2) \o <<sep>> \o PadNat(ymd % 100, 2) \o <<sep>>
    \o PadNat(ymd \div 10000, 4)

(***************************************************************************)
(* The program's functions.                                                *)
(***************************************************************************)
\* re: \b holds between s[i-1] and s[i]
WordBoundary(s, i) ==
    LET before == i > 1 /\ IsWord(s[i - 1])
        after == i <= Len(s) /\ IsWord(s[i])
    IN  before # after

RECURSIVE DigitRun(_, _)
DigitRun(s, i) == IF i <= Len(s) /\ IsDigit(s[i]) THEN 1 + DigitRun(s, i + 1) ELSE 0

\* re.match of \bCC\d+\b (IGNORECASE) at position i: the position after the
\* match, 0 when there is none. \d+ is greedy and backtracks.
LongestOr0(i, ks) == IF ks = {} THEN 0 ELSE i + 2 + SetMax(ks)

MatchAt(s, i) ==
    IF WordBoundary(s, i) /\ i + 1 <= Len(s)
       /\ LowerChar(s[i]) = "c" /\ LowerChar(s[i + 1]) = "c"
    THEN LongestOr0(i, {k \in 1..DigitRun(s, i + 2) : WordBoundary(s, i + 2 + k)})
    ELSE 0

\* re.search: the leftmost match, <<>> when there is none
RECURSIVE SearchFrom(_, _)
SearchFrom(s, i) ==
    IF i > Len(s) THEN <<>>
    ELSE IF MatchAt(s, i) > 0 THEN SubSeq(s, i, MatchAt(s, i) - 1)
    ELSE SearchFrom(s, i + 1)

\* "" if pd.isna(cell) else str(cell).strip()
StrippedText(cell) == IF IsNa(cell) THEN <<>> ELSE Strip(Str(cell))

_extract_cc_number(cost_center_cell) == Upper(SearchFrom(StrippedText(cost_center_cell), 1))

\* [p.strip() for p in parts if p.strip()]
RECURSIVE StripNonEmpty(_)
StripNonEmpty(parts) ==
    IF parts = <<>> THEN <<>>
    ELSE LET p == Strip(Head(parts)) IN
         (IF p = <<>> THEN <<>> ELSE <<p>>) \o StripNonEmpty(Tail(parts))

\* lines 115-118
NameFromParts(parts) ==
    [first |-> IF Len(parts) >= 2 THEN SplitWs(parts[2])[1] ELSE <<>>,
     last |-> IF Len(parts) >= 1 THEN parts[1] ELSE <<>>]

\* a slip: the second token taken for the last name
NameFromTokens_Second(tokens) ==
    IF Len(tokens) = 1 THEN [first |-> tokens[1], last |-> <<>>]
    ELSE [first |-> tokens[1], last |-> tokens[2]]

\* lines 120-123
NameFromTokens(tokens) ==
    IF Len(tokens) = 1 THEN [first |-> tokens[1], last |-> <<>>]
    ELSE [first |-> tokens[1], last |-> tokens[Len(tokens)]]

\* lines 111-123, s the stripped text of the cell
SplitName(s) ==
    IF s = <<>> THEN [first |-> <<>>, last |-> <<>>]
    ELSE IF "," \in Range(s) THEN NameFromParts(StripNonEmpty(SplitOn(s, ",")))
    ELSE NameFromTokens(SplitWs(s))

_split_worker_name(worker_cell) == SplitName(StrippedText(worker_cell))

\* re.sub(r"[^0-9.\-]", "", s)
RECURSIVE KeepNumeric(_)
KeepNumeric(s) ==
    IF s = <<>> THEN <<>>
    ELSE (IF IsDigit(Head(s)) \/ Head(s) \in {".", "-"} THEN <<Head(s)>> ELSE <<>>)
         \o KeepNumeric(Tail(s))

\* val / 100.0 if val > 1 else val
Fraction(v) == IF v.k = "num" /\ v.m > Pow10(v.e) THEN NormNum(v.m, v.e + 2) ELSE v

\* lines 136-140
FteOfCleaned(s) == IF s = <<>> THEN Blank ELSE Fraction(FloatOf(s))

_parse_fte(fte_cell) ==
    IF IsNa(fte_cell) THEN Blank
    ELSE FteOfCleaned(KeepNumeric(RemoveChar(Strip(Str(fte_cell)), "%")))

\* lines 152-155
FormatTimestamp(dt) == IF ~dt.ok THEN <<>> ELSE Strftime(dt.ymd, "/")

_format_mmddyyyy(date_cell) ==
    IF IsNa(date_cell) \/ Strip(Str(date_cell)) = <<>> THEN <<>>
    ELSE FormatTimestamp(ToDatetime(date_cell))

\* lines 222-223, one cell of the column
DistributionPercent(cell) == Fraction(ToNumeric(cell))

BudgetColumns == <<"Program", "Grant", "Gift">>

\* the loop of lines 166-171 from the i-th column on; v is the stripped
\* text of the i-th column, <<>> when the column is not in the table
RECURSIVE BudgetFrom(_, _, _)
\* a slip: an empty higher-priority column ends the search
BudgetValue_Blocking(row, cols, i, v) == IF v # <<>> THEN SplitWs(v)[1] ELSE <<>>

BudgetValue(row, cols, i, v) ==
    IF v # <<>> THEN SplitWs(v)[1] ELSE BudgetFrom(row, cols, i + 1)

BudgetFrom(row, cols, i) ==
    IF i > Len(BudgetColumns) THEN <<>>
    ELSE BudgetValue(row, cols, i,
                     IF BudgetColumns[i] \in cols THEN StrippedText(row[BudgetColumns[i]])
                     ELSE <<>>)

\* row is a function from column names to cells, cols the columns present
_extract_budget_number(row, cols) == BudgetFrom(row, cols, 1)

EffectiveDateKey == <<"e","f","f","e","c","t","i","v","e","d","a","t","e">>

\* nrows of the header read
NRows == 15

\* the loop of ReadInFirst15Lines over rows [key, value], eff the field so far
RECURSIVE HeaderLoop(_, _)
\* a slip: the first occurrence of the key wins
HeaderLoop_FirstWins(rows, eff) ==
    IF rows = <<>> THEN eff
    ELSE IF IsNa(Head(rows).key) THEN HeaderLoop(Tail(rows), eff)
    ELSE HeaderLoop(Tail(rows),
                    IF RemoveChar(RemoveChar(Lower(Strip(Str(Head(rows).key))), " "), "_")
                          = EffectiveDateKey /\ eff = <<>>
                    THEN StrippedText(Head(rows).value)
                    ELSE eff)

HeaderLoop(rows, eff) ==
    IF rows = <<>> THEN eff
    ELSE LET row == Head(rows) IN
         IF IsNa(row.key) THEN HeaderLoop(Tail(rows), eff)
         ELSE LET key == RemoveChar(RemoveChar(Lower(Strip(Str(row.key))), " "), "_")
                  value == IF IsNa(row.value) THEN <<>> ELSE Strip(Str(row.value))
              IN  HeaderLoop(Tail(rows), IF key = EffectiveDateKey THEN value ELSE eff)

\* the EffectiveDate of the OutPutClass returned
ReadInFirst15Lines(rows) ==
    HeaderLoop(SubSeq(rows, 1, IF Len(rows) < NRows THEN Len(rows) ELSE NRows), <<>>)

OUTPUT_DIR == <<"T","E","M","P">>

\* lines 77-86: date_obj is the parse of raw_date, not ok when it raises
FormattedDate(raw_date, date_obj) ==
    IF raw_date = <<>> THEN <<"u","n","k","n","o","w","n","d","a","t","e">>
    ELSE IF date_obj.ok THEN Strftime(date_obj.ymd, "_")
    ELSE ReplaceChar(ReplaceChar(ReplaceChar(raw_date, "/", "_"), "\\", "_"), ":", "_")

FileNameOf(raw_date) == FormattedDate(raw_date, DateOfStripped(raw_date))

CreateOutPutFileName(EffectiveDate) ==
    OUTPUT_DIR \o <<"/">> \o FileNameOf(Strip(EffectiveDate)) \o <<" ","C","o","s","t","i","n","g"," ","A","l","l","o","c","a","t","i","o","n","s",".","x","l","s","x">>

AllColumns == {"Worker", "Title", "FTE", "Start Date", "End Date",
               "Distribution Percent", "Cost Center", "Cost Center.1",
               "Program", "Grant", "Gift"}

required == <<"Worker", "Title", "FTE", "Start Date", "End Date", "Distribution Percent">>

\* df.dropna(how="all").reset_index(drop=True): the rows with a non-empty
\* cell in some column of the table
IsEmptyRow(row, cols) == \A c \in cols : IsNa(row[c])

RECURSIVE DropNaAll(_, _)
DropNaAll(rows, cols) ==
    IF rows = <<>> THEN <<>>
    ELSE (IF IsEmptyRow(Head(rows), cols) THEN <<>> ELSE <<Head(rows)>>)
         \o DropNaAll(Tail(rows), cols)

\* a slip: the organization-level code preferred
PreferAlloc_Org(alloc, org) == IF org # <<>> THEN org ELSE alloc

\* line 209
PreferAlloc(alloc, org) == IF alloc # <<>> THEN alloc ELSE org

_pick_cost_center(row, cols) ==
    PreferAlloc(IF "Cost Center.1" \in cols THEN _extract_cc_number(row["Cost Center.1"]) ELSE <<>>,
                IF "Cost Center" \in cols THEN _extract_cc_number(row["Cost Center"]) ELSE <<>>)

\* lines 211-225 for one row: the nine output fields
OutputFields(row, cols, first_last) ==
    [CostCenter |-> _pick_cost_center(row, cols),
     LastName |-> first_last.last,
     FirstName |-> first_last.first,
     Title |-> IF IsNa(row["Title"]) THEN <<>> ELSE Strip(Str(row["Title"])),
     FTE |-> _parse_fte(row["FTE"]),
     StartDate |-> _format_mmddyyyy(row["Start Date"]),
     EndDate |-> _format_mmddyyyy(row["End Date"]),
     DistributionPercent |-> DistributionPercent(row["Distribution Percent"]),
     Budget |-> _extract_budget_number(row, cols)]

OutputRow(row, cols) == OutputFields(row, cols, _split_worker_name(row["Worker"]))

\* a slip: only the cost center looked at
HasIdentifyingInfo_CostCenterOnly(r) == r.CostCenter # <<>>

\* lines 228-234: the rows kept
HasIdentifyingInfo(r) ==
    ~(r.CostCenter = <<>> /\ r.FirstName = <<>> /\ r.LastName = <<>>)

\* code points of the characters the model uses, in ascending order
AsciiChars == <<"\t", " ", "%", ",", "-", ".", "/">> \o DigitChars \o <<":">>
              \o UpperChars \o <<"\\", "_">> \o LowerChars
Ord(c) == CHOOSE i \in 1..Len(AsciiChars) : AsciiChars[i] = c

\* Python's a < b on str
RECURSIVE StrLess(_, _)
StrLess(a, b) ==
    IF b = <<>> THEN FALSE
    ELSE IF a = <<>> THEN TRUE
    ELSE IF Head(a) = Head(b) THEN StrLess(Tail(a), Tail(b))
    ELSE Ord(Head(a)) < Ord(Head(b))

\* a slip: the second sort key left out
KeyLess_CostCenterOnly(x, y) == StrLess(x.CostCenter, y.CostCenter)

\* by=["Cost Center", "Last Name"], ascending: x sorts strictly before y
KeyLess(x, y) ==
    \/ StrLess(x.CostCenter, y.CostCenter)
    \/ x.CostCenter = y.CostCenter /\ StrLess(x.LastName, y.LastName)

\* x goes after every element that does not sort strictly after it
RECURSIVE InsertSorted(_, _)
InsertSorted(sorted, x) ==
    IF sorted = <<>> THEN <<x>>
    ELSE IF KeyLess(x.r, Head(sorted).r) THEN <<x>> \o sorted
    ELSE <<Head(sorted)>> \o InsertSorted(Tail(sorted), x)

\* sort_values(kind="mergesort") of a sequence of [i, r]: index label and row
RECURSIVE SortValues(_)
SortValues(xs) ==
    IF xs = <<>> THEN <<>>
    ELSE InsertSorted(SortValues(SubSeq(xs, 1, Len(xs) - 1)), xs[Len(xs)])

NoDialog == [box |-> "none", title |-> "", detail |-> <<>>]
Unset == [kind |-> "unset", rows |-> <<>>, index |-> <<>>, dialog |-> NoDialog]

\* table = [cols, rows]. The result: kind "none" (None returned, with the
\* error box shown), "raise" (an exception escapes) or "table" with the output
\* rows and, in index, the labels they carry before the last reset_index.
\* the frame returned: sorted holds [i, r], index label and row
TableOf(sorted) ==
    [kind |-> "table",
     rows |-> [j \in 1..Len(sorted) |-> sorted[j].r],
     index |-> [j \in 1..Len(sorted) |-> sorted[j].i],
     dialog |-> NoDialog]

\* lines 228-234: the rows with identifying information
KeepIdentified(out) == SelectSeq(out, LAMBDA x : HasIdentifyingInfo(x.r))

\* lines 211-258 on the derived rows out; _parse_fte raising ends the call
FilterAndSort(out) ==
    IF \E i \in 1..Len(out) : out[i].r.FTE.k = "raise"
    THEN [kind |-> "raise", rows |-> <<>>, index |-> <<>>, dialog |-> NoDialog]
    ELSE TableOf(SortValues(KeepIdentified(out)))

\* lines 182-258 on the rows left by dropna
Transform(cols, rows, missing) ==
    IF missing # <<>>
    THEN [kind |-> "none", rows |-> <<>>, index |-> <<>>,
          dialog |-> [box |-> "showerror", title |-> "column name error",
                      detail |-> missing]]
    ELSE IF "Cost Center" \notin cols /\ "Cost Center.1" \notin cols
    THEN [kind |-> "none", rows |-> <<>>, index |-> <<>>,
          dialog |-> [box |-> "showerror", title |-> "column name error",
                      detail |-> <<"No Cost Center column found.">>]]
    ELSE FilterAndSort([i \in 1..Len(rows) |-> [i |-> i, r |-> OutputRow(rows[i], cols)]])

ReadInCostingAllocationsFile(table) ==
    Transform(table.cols, DropNaAll(table.rows, table.cols),
              SelectSeq(required, LAMBDA c : c \notin table.cols))

(***************************************************************************)
(* The inputs the model draws.                                             *)
(***************************************************************************)
RECURSIVE StringsOfLen(_, _)
StringsOfLen(A, n) == IF n = 0 THEN {<<>>}
                      ELSE {<<c>> \o s : c \in A, s \in StringsOfLen(A, n - 1)}
StringsUpTo(A, n) == UNION {StringsOfLen(A, k) : k \in 0..n}

RECURSIVE SeqsOfLen(_, _)
SeqsOfLen(S, n) == IF n = 0 THEN {<<>>}
                   ELSE {<<x>> \o s : x \in S, s \in SeqsOfLen(S, n - 1)}
SeqsUpTo(S, n) == UNION {SeqsOfLen(S, k) : k \in 0..n}

HeaderKeys == {NaN, Text(<<"E","f","f","e","c","t","i","v","e"," ","D","a","t","e">>), Text(<<" ","e","f","f","e","c","t","i","v","e","_","d","a","t","e"," ">>), Text(<<"E","F","F","E","C","T","I","V","E","D","A","T","E">>), Text(<<"E","f","f","e","c","t","i","v","e","\t","D","a","t","e">>), Text(<<"D","a","t","e">>)}
HeaderValues == {NaN, Text(<<" ","0","1","/","0","5","/","2","0","2","4"," ">>), Text(<<"Q","1","/","Q","2">>), DateCell(20240229)}
HeaderRows == {[key |-> k, value |-> v] : k \in HeaderKeys, v \in HeaderValues}
HeaderBlocks == SeqsUpTo(HeaderRows, MaxHeaderRows)

EffectiveDates == {ReadInFirst15Lines(b) : b \in HeaderBlocks}
OutputPaths == {CreateOutPutFileName(v) : v \in EffectiveDates}

SampleRow(worker, cc, cc1, fte) ==
    [c \in AllColumns |->
        CASE c = "Worker" -> worker
          [] c = "Title" -> Text(<<" ","A","n","a","l","y","s","t"," ">>)
          [] c = "FTE" -> fte
          [] c = "Start Date" -> DateCell(20240105)
          [] c = "End Date" -> Text(<<"T","B","D">>)
          [] c = "Distribution Percent" -> NumCell(50, 0)
          [] c = "Cost Center" -> cc
          [] c = "Cost Center.1" -> cc1
          [] c = "Program" -> NaN
          [] c = "Grant" -> Text(<<"G","9","9"," ","f","u","n","d">>)
          [] OTHER -> NaN]

EmptyRow == [c \in AllColumns |-> NaN]

\* rows with and without a cost center and a name, two workers with the same
\* last name, an FTE that is not a number, an allocation-level cost center
SampleRows ==
    {SampleRow(w, cc, NaN, Text(<<"5","0",".","%">>)) :
        <<w, cc>> \in {<<NaN, NaN>>,
                       <<Text(<<"S","m","i","t","h",","," ","J","o","h","n">>), NaN>>, <<Text(<<"S","m","i","t","h",","," ","J","o","h","n">>), Text(<<"C","C","2"," ","x">>)>>,
                       <<Text(<<"A","l"," ","S","m","i","t","h">>), Text(<<"C","C","2"," ","x">>)>>}}
    \cup {SampleRow(Text(<<"S","m","i","t","h",","," ","J","o","h","n">>), Text(<<"C","C","2"," ","x">>), NaN, Text(<<".">>)),
          SampleRow(NaN, Text(<<"C","C","2"," ","x">>), Text(<<"C","C","3">>), NumCell(1, 0)),
          EmptyRow}

CostCenterColumnSets == {{"Cost Center"}, {"Cost Center", "Cost Center.1"}, {"Cost Center.1"}}

IsComplete(cols) ==
    /\ Range(required) \subseteq cols
    /\ cols \cap {"Cost Center", "Cost Center.1"} # {}

\* the column sets of the tables drawn: every choice of required and Cost
\* Center columns, with the three budget columns
TableColumnSets ==
    {r \cup cc \cup Range(BudgetColumns) :
        r \in SUBSET Range(required), cc \in CostCenterColumnSets \cup {{}}}

\* a table with all its columns has up to MaxRows rows, one of them not
\* empty; a table that lacks a column has one row
Tables ==
    {[cols |-> cols, rows |-> rows] :
        cols \in {c \in TableColumnSets : IsComplete(c)},
        rows \in {rs \in SeqsUpTo(SampleRows, MaxRows) :
                     \E i \in 1..Len(rs) : rs[i] # EmptyRow}}
    \cup
    {[cols |-> cols, rows |-> <<SampleRow(Text(<<"S","m","i","t","h",","," ","J","o","h","n">>), Text(<<"C","C","2"," ","x">>), NaN, Text(<<"5","0",".","%">>))>>] :
        cols \in {c \in TableColumnSets : ~IsComplete(c)}}

NoTable == [cols |-> {}, rows |-> <<>>]

(***************************************************************************)
(* main(): one action per step, pc the position.                           *)
(***************************************************************************)
Idle == "idle"

Init ==
    /\ pc = "start"
    /\ steps = <<>>
    /\ outdir \in BOOLEAN
    /\ disk \in [OutputPaths -> {"absent", "old"}]
    /\ Cardinality({p \in OutputPaths : disk[p] = "old"}) <= 1
    /\ (~outdir => \A p \in OutputPaths : disk[p] = "absent")
    /\ header_data = <<>>
    /\ output_file_path = <<>>
    /\ df = NoTable
    /\ df_out = Unset
    /\ dialogs = <<>>
    /\ arg = Idle
    /\ ret = Idle

\* lines 308-310: the picker returns a file name, or "" when cancelled
SelectOneExcelFile ==
    /\ pc = "start"
    /\ \E file_to_open \in {"", "export.xlsx"} :
          pc' = IF file_to_open = "" THEN "done" ELSE "header"
    /\ steps' = Append(steps, "select")
    /\ UNCHANGED <<outdir, disk, header_data, output_file_path, df, df_out, dialogs, arg, ret>>

\* line 312
ReadHeader ==
    /\ pc = "header"
    /\ \E rows \in HeaderBlocks : header_data' = ReadInFirst15Lines(rows)
    /\ pc' = "name"
    /\ steps' = Append(steps, "header")
    /\ UNCHANGED <<outdir, disk, output_file_path, df, df_out, dialogs, arg, ret>>

\* line 313; os.makedirs creates the output directory
ComputeName ==
    /\ pc = "name"
    /\ output_file_path' = CreateOutPutFileName(header_data)
    /\ outdir' = TRUE
    /\ pc' = "exists"
    /\ steps' = Append(steps, "name")
    /\ UNCHANGED <<disk, header_data, df, df_out, dialogs, arg, ret>>

\* a slip: the existing file is reported but main goes on
CheckExists_NoReturn ==
    /\ pc = "exists"
    /\ dialogs' = IF disk[output_file_path] # "absent"
                  THEN Append(dialogs, [box |-> "showerror", title |-> "file already exists",
                                        detail |-> output_file_path])
                  ELSE dialogs
    /\ pc' = "read"
    /\ steps' = Append(steps, "exists")
    /\ UNCHANGED <<outdir, disk, header_data, output_file_path, df, df_out, arg, ret>>

\* lines 315-320
CheckExists ==
    /\ pc = "exists"
    /\ IF disk[output_file_path] # "absent"
       THEN /\ dialogs' = Append(dialogs, [box |-> "showerror",
                                           title |-> "file already exists",
                                           detail |-> output_file_path])
            /\ pc' = "done"
       ELSE /\ dialogs' = dialogs
            /\ pc' = "read"
    /\ steps' = Append(steps, "exists")
    /\ UNCHANGED <<outdir, disk, header_data, output_file_path, df, df_out, arg, ret>>

\* lines 322-324; an exception that escapes ends main at "crashed"
ReadTable ==
    /\ pc = "read"
    /\ \E table \in Tables :
          /\ df' = table
          /\ df_out' = ReadInCostingAllocationsFile(table)
    /\ dialogs' = IF df_out'.kind = "none" THEN Append(dialogs, df_out'.dialog) ELSE dialogs
    /\ pc' = CASE df_out'.kind = "none" -> "done"
               [] df_out'.kind = "raise" -> "crashed"
               [] OTHER -> "write"
    /\ steps' = Append(steps, "read")
    /\ UNCHANGED <<outdir, disk, header_data, output_file_path, arg, ret>>

\* line 326
WriteCostingAllocationsToExcel ==
    /\ pc = "write"
    /\ disk' = [disk EXCEPT ![output_file_path] = "new"]
    /\ pc' = "notify"
    /\ steps' = Append(steps, "write")
    /\ UNCHANGED <<outdir, header_data, output_file_path, df, df_out, dialogs, arg, ret>>

\* line 328
NotifyDone ==
    /\ pc = "notify"
    /\ dialogs' = Append(dialogs, [box |-> "showinfo", title |-> "Done",
                                   detail |-> output_file_path])
    /\ pc' = "done"
    /\ steps' = Append(steps, "notify")
    /\ UNCHANGED <<outdir, disk, header_data, output_file_path, df, df_out, arg, ret>>

Next ==
    \/ SelectOneExcelFile
    \/ ReadHeader
    \/ ComputeName
    \/ CheckExists
    \/ ReadTable
    \/ WriteCostingAllocationsToExcel
    \/ NotifyDone

Spec == Init /\ [][Next]_vars

(***************************************************************************)
(* The functions on their own: each specification draws an argument and    *)
(* calls one function on it.                                               *)
(***************************************************************************)
MainIdle ==
    /\ steps = <<>>
    /\ outdir = FALSE
    /\ disk = <<>>
    /\ header_data = <<>>
    /\ output_file_path = <<>>
    /\ df = NoTable
    /\ df_out = Unset
    /\ dialogs = <<>>

MainUnchanged ==
    UNCHANGED <<steps, outdir, disk, header_data, output_file_path, df, df_out, dialogs>>

\* ---- _split_worker_name
WorkerCells ==
    {NaN, NumCell(15, 1), Text(<<"S","m","i","t","h",","," ","J","o","h","n"," ","A","l","l","e","n">>), Text(<<"J","o","h","n"," ","A","l","l","e","n"," ","S","m","i","t","h">>), Text(<<"S","m","i","t","h">>)}
    \cup {Text(s) : s \in StringsUpTo({"a", "b", ",", " ", "\t"}, MaxNameLen)}

InitWorker == pc = "call" /\ arg \in WorkerCells /\ ret = Idle /\ MainIdle

CallSplitWorkerName ==
    /\ pc = "call"
    /\ ret' = _split_worker_name(arg)
    /\ pc' = "return"
    /\ UNCHANGED arg
    /\ MainUnchanged

SpecWorker == InitWorker /\ [][CallSplitWorkerName]_vars

\* ---- _extract_cc_number, _pick_cost_center
CostCenterCells ==
    {NaN} \cup {Text(s) : s \in StringsUpTo({"C", "c", "1", "x", " "}, MaxCCLen)}
OtherCostCenterCells == {NaN, Text(<<"C","C","2">>), Text(<<"x">>), Text(<<"D","e","p","t"," ","c","c","0","0","7","5"," ","O","p","s">>)}

\* the cells of a row that _pick_cost_center reads
CostCenterRow(alloc, org) ==
    [c \in {"Cost Center", "Cost Center.1"} |-> IF c = "Cost Center.1" THEN alloc ELSE org]

\* one of the two cells ranges over every short text, the other over samples
CostCenterArgs ==
    {[row |-> IF allocVaries THEN CostCenterRow(a, o) ELSE CostCenterRow(o, a), cols |-> cs] :
        a \in CostCenterCells, o \in OtherCostCenterCells, cs \in CostCenterColumnSets,
        allocVaries \in BOOLEAN}

InitCostCenter == pc = "call" /\ arg \in CostCenterArgs /\ ret = Idle /\ MainIdle

CallPickCostCenter ==
    /\ pc = "call"
    /\ ret' = _pick_cost_center(arg.row, arg.cols)
    /\ pc' = "return"
    /\ UNCHANGED arg
    /\ MainUnchanged

SpecCostCenter == InitCostCenter /\ [][CallPickCostCenter]_vars

\* ---- _parse_fte and the Distribution Percent column
NotYet == [k |-> "unset", m |-> 0, e |-> 0]

NumberCells ==
    {NaN, NumCell(50, 0), NumCell(1, 0), NumCell(75, 2), NumCell(1005, 1), NumCell(-25, 1),
     Text(<<"5","0",".","%">>), Text(<<"0",".","7","5">>), Text(<<"1","0","0">>), Text(<<"1",".","2",".","3">>), Text(<<"1","-","2">>), Text(<<"1","2",".","5","%">>)}
    \cup {Text(s) : s \in StringsUpTo({"1", "5", "0", ".", "-", "%", "x", " "}, MaxNumLen)}

InitNumber ==
    /\ pc = "call"
    /\ arg \in NumberCells
    /\ ret = [fte |-> NotYet, dist |-> NotYet]
    /\ MainIdle

\* line 218 on one cell
CallParseFte ==
    /\ pc = "call"
    /\ ret.fte = NotYet
    /\ ret' = [ret EXCEPT !.fte = _parse_fte(arg)]
    /\ UNCHANGED <<pc, arg>>
    /\ MainUnchanged

\* lines 222-223 on one cell
CallDistributionPercent ==
    /\ pc = "call"
    /\ ret.dist = NotYet
    /\ ret' = [ret EXCEPT !.dist = DistributionPercent(arg)]
    /\ UNCHANGED <<pc, arg>>
    /\ MainUnchanged

NextNumber == CallParseFte \/ CallDistributionPercent

SpecNumber == InitNumber /\ [][NextNumber]_vars

\* ---- _extract_budget_number
BudgetCells == {NaN} \cup {Text(s) : s \in StringsUpTo({"g", " "}, MaxBudgetLen)}
GiftCells == {NaN, Text(<<" ">>), Text(<<"G","9","9"," ","f","u","n","d">>), Text(<<"7","7">>)}

\* the cells of a row that _extract_budget_number reads
BudgetRow(program, grant, gift) ==
    [c \in Range(BudgetColumns) |-> CASE c = "Program" -> program
                                      [] c = "Grant" -> grant
                                      [] OTHER -> gift]

BudgetArgs ==
    {[row |-> BudgetRow(p, g, f), cols |-> cs] :
        p \in BudgetCells, g \in BudgetCells, f \in GiftCells,
        cs \in SUBSET Range(BudgetColumns)}

InitBudget == pc = "call" /\ arg \in BudgetArgs /\ ret = Idle /\ MainIdle

CallExtractBudgetNumber ==
    /\ pc = "call"
    /\ ret' = _extract_budget_number(arg.row, arg.cols)
    /\ pc' = "return"
    /\ UNCHANGED arg
    /\ MainUnchanged

SpecBudget == InitBudget /\ [][CallExtractBudgetNumber]_vars

\* ---- ReadInFirst15Lines
InitHeader == pc = "call" /\ arg \in HeaderBlocks /\ ret = Idle /\ MainIdle

CallReadInFirst15Lines ==
    /\ pc = "call"
    /\ ret' = ReadInFirst15Lines(arg)
    /\ pc' = "return"
    /\ UNCHANGED arg
    /\ MainUnchanged

SpecHeader == InitHeader /\ [][CallReadInFirst15Lines]_vars

(***************************************************************************)
(* Text described by positions, for stating the properties.                *)
(***************************************************************************)
SetMin(S) == CHOOSE x \in S : \A y \in S : x <= y

NonSpaceAt(t) == {i \in 1..Len(t) : ~IsSpace(t[i])}

TrimmedAt(t, ns) == IF ns = {} THEN <<>> ELSE SubSeq(t, SetMin(ns), SetMax(ns))
Trimmed(t) == TrimmedAt(t, NonSpaceAt(t))

Span(t, p) == SubSeq(t, p[1], p[2])
FirstSpan(S) == CHOOSE p \in S : \A r \in S : p[1] <= r[1]
LastSpan(S) == CHOOSE p \in S : \A r \in S : r[1] <= p[1]

\* the maximal runs of non-whitespace of t
TokenSpans(t) ==
    {p \in (1..Len(t)) \X (1..Len(t)) :
        /\ p[1] <= p[2]
        /\ \A k \in p[1]..p[2] : ~IsSpace(t[k])
        /\ (p[1] = 1 \/ IsSpace(t[p[1] - 1]))
        /\ (p[2] = Len(t) \/ IsSpace(t[p[2] + 1]))}

FirstTokenOf(t) == Span(t, FirstSpan(TokenSpans(t)))

\* the maximal comma-free stretches of t that hold a non-whitespace character
PartSpans(t) ==
    {p \in (1..Len(t)) \X (1..Len(t)) :
        /\ p[1] <= p[2]
        /\ \A k \in p[1]..p[2] : t[k] # ","
        /\ (p[1] = 1 \/ t[p[1] - 1] = ",")
        /\ (p[2] = Len(t) \/ t[p[2] + 1] = ",")
        /\ \E k \in p[1]..p[2] : ~IsSpace(t[k])}

CellText(cell) == IF IsNa(cell) THEN <<>> ELSE Str(cell)

(***************************************************************************)
(* C1                                                                      *)
(***************************************************************************)
StepOrder == <<"select", "header", "name", "exists", "read", "write", "notify">>

Ended == pc \in {"done", "crashed"}

\* C1: main runs its steps strictly in the order select, header, name,
\* exists-check, table read, write, notify, each only after all earlier ones;
\* a run that ends early never invoked the writer and left every output file
\* as it was; the table is read only when the output path was absent, and a
\* run that ends on the existing output has read the header but no table.
C1_StepsInOrder ==
    /\ Len(steps) <= Len(StepOrder)
    /\ steps = SubSeq(StepOrder, 1, Len(steps))
    /\ (Ended /\ steps # StepOrder) =>
          /\ "write" \notin Range(steps)
          /\ \A p \in OutputPaths : disk[p] # "new"
    /\ "read" \in Range(steps) => disk[output_file_path] # "old"
    /\ (Ended /\ Len(steps) = 4) =>
          /\ disk[output_file_path] = "old"
          /\ df = NoTable /\ df_out = Unset
          /\ dialogs = <<[box |-> "showerror", title |-> "file already exists",
                          detail |-> output_file_path]>>

\* a run that ended because the output file exists, after a header with an
\* Effective Date was read
C1_Witness ==
    /\ pc = "done"
    /\ steps = <<"select", "header", "name", "exists">>
    /\ header_data # <<>>

(***************************************************************************)
(* C2, C6                                                                  *)
(***************************************************************************)
\* C2: a cell that fails number parsing gives a blank field: _parse_fte (and
\* the Distribution Percent conversion) returns a number or blank, it never
\* raises.
C2_ParseFailureIsBlank ==
    /\ ret.fte.k \in {"unset", "num", "nan"}
    /\ ret.dist.k \in {"unset", "num", "nan"}

Half == [k |-> "num", m |-> 5, e |-> 1]

\* C6: FTE and Distribution Percent yield the same result for every cell; in
\* particular the text 50.% yields 0.5 for both.
C6_SameFraction ==
    (ret.fte # NotYet /\ ret.dist # NotYet) =>
        /\ ret.fte = ret.dist
        /\ arg = Text(<<"5","0",".","%">>) => (ret.fte = Half /\ ret.dist = Half)

(***************************************************************************)
(* C3, C4, C5                                                              *)
(***************************************************************************)
MissingRequired == SelectSeq(required, LAMBDA c : c \notin df.cols)
NoCostCenterColumn == df.cols \cap {"Cost Center", "Cost Center.1"} = {}

\* C3: the transformer returns None, with an error box and without raising,
\* exactly when a required column or both Cost Center columns are absent, the
\* box listing exactly the absent required columns, and main then ends with no
\* file written; in every other case it returns a table.
C3_NoneIffStructuralError ==
    "read" \in Range(steps) =>
        IF MissingRequired # <<>> \/ NoCostCenterColumn
        THEN /\ df_out.kind = "none"
             /\ pc = "done"
             /\ Len(dialogs) = 1 /\ dialogs[1].box = "showerror"
             /\ MissingRequired # <<>> => dialogs[1].detail = MissingRequired
             /\ \A p \in OutputPaths : disk[p] # "new"
        ELSE df_out.kind = "table"

\* positions in df.rows of the rows that are not entirely empty; the label l
\* of the frame after line 180 is the row at position NonEmptyPositions[l]
NonEmptyPositions ==
    SelectSeq([i \in 1..Len(df.rows) |-> i],
              LAMBDA i : \E c \in df.cols : ~IsNa(df.rows[i][c]))

Derived(l) == OutputRow(df.rows[NonEmptyPositions[l]], df.cols)

Identified(r) == r.CostCenter # <<>> \/ r.FirstName # <<>> \/ r.LastName # <<>>

Occurrences(l) == {j \in 1..Len(df_out.index) : df_out.index[j] = l}

\* C4: every row of the returned table has a non-empty Cost Center, First
\* Name or Last Name; every not entirely empty source row whose derived Cost
\* Center, First Name or Last Name is non-empty is in the table exactly once,
\* and a row whose three derived fields are empty is not in it.
C4_IdentifiedRowsKept ==
    df_out.kind = "table" =>
        /\ \A j \in 1..Len(df_out.rows) : Identified(df_out.rows[j])
        /\ \A j \in 1..Len(df_out.rows) :
              /\ df_out.index[j] \in 1..Len(NonEmptyPositions)
              /\ df_out.rows[j] = Derived(df_out.index[j])
        /\ \A l \in 1..Len(NonEmptyPositions) :
              Cardinality(Occurrences(l)) = IF Identified(Derived(l)) THEN 1 ELSE 0

\* a table with a row kept that has names but no cost center, and a row dropped
C4_Witness ==
    /\ df_out.kind = "table"
    /\ \E j \in 1..Len(df_out.rows) :
          df_out.rows[j].CostCenter = <<>> /\ df_out.rows[j].LastName # <<>>
    /\ Len(df_out.rows) < Len(NonEmptyPositions)

\* a before b in code point order
TextBefore(a, b) ==
    \E k \in 1..(Len(b)) :
        /\ k <= Len(a) + 1
        /\ \A i \in 1..(k - 1) : a[i] = b[i]
        /\ (k = Len(a) + 1 \/ Ord(a[k]) < Ord(b[k]))

SameKey(x, y) == x.CostCenter = y.CostCenter /\ x.LastName = y.LastName

KeyBefore(x, y) ==
    \/ TextBefore(x.CostCenter, y.CostCenter)
    \/ x.CostCenter = y.CostCenter /\ TextBefore(x.LastName, y.LastName)

\* C5: the returned table is a permutation of the rows that pass the
\* identifying-information filter, ascending by (Cost Center, Last Name), rows
\* with the same (Cost Center, Last Name) in their source order.
C5_StableSorted ==
    df_out.kind = "table" =>
        /\ Len(df_out.index) = Len(df_out.rows)
        /\ \A l \in 1..Len(NonEmptyPositions) :
              Identified(Derived(l)) <=> \E j \in 1..Len(df_out.index) : df_out.index[j] = l
        /\ \A j, k \in 1..Len(df_out.rows) :
              j < k =>
                 /\ df_out.index[j] # df_out.index[k]
                 /\ ~KeyBefore(df_out.rows[k], df_out.rows[j])
                 /\ SameKey(df_out.rows[j], df_out.rows[k])
                       => df_out.index[j] < df_out.index[k]
        /\ \A j \in 1..Len(df_out.rows) : df_out.rows[j] = Derived(df_out.index[j])

\* a table of two rows that the sort has exchanged
C5_Witness ==
    /\ df_out.kind = "table"
    /\ df_out.index = <<2, 1>>
    /\ KeyBefore(df_out.rows[1], df_out.rows[2])

(***************************************************************************)
(* C7                                                                      *)
(***************************************************************************)
IsC(c) == c \in {"C", "c"}

\* the stretches of t made of two letters C (either case) and the whole run
\* of digits that follows; delimited: neither preceded nor followed by a
\* letter, a digit or an underscore
CodeSpans(t, delimited) ==
    {p \in (1..Len(t)) \X (1..Len(t)) :
        /\ p[1] + 2 <= p[2]
        /\ IsC(t[p[1]]) /\ IsC(t[p[1] + 1])
        /\ \A k \in (p[1] + 2)..p[2] : IsDigit(t[k])
        /\ (p[2] = Len(t) \/ ~IsDigit(t[p[2] + 1]))
        /\ delimited => /\ (p[1] = 1 \/ ~IsWord(t[p[1] - 1]))
                        /\ (p[2] = Len(t) \/ ~IsWord(t[p[2] + 1]))}

FirstCode(t, S) == IF S = {} THEN <<>> ELSE Upper(Span(t, FirstSpan(S)))

\* the code of a column of the row drawn, <<>> when the table lacks the column
CodeOfColumn(col, delimited) ==
    IF col \in arg.cols
    THEN FirstCode(CellText(arg.row[col]), CodeSpans(CellText(arg.row[col]), delimited))
    ELSE <<>>

AllocElseOrg(alloc, org) == IF alloc # <<>> THEN alloc ELSE org

\* C7 as claimed: the Cost Center is the upper-cased code of the allocation
\* column if it has one, else that of the organization column, else empty,
\* where every cell that contains CC followed by digits yields that code.
C7_AnyOccurrence ==
    pc = "return" =>
        ret = AllocElseOrg(CodeOfColumn("Cost Center.1", FALSE),
                           CodeOfColumn("Cost Center", FALSE))

\* C7 amended: the same, where a cell yields the leftmost occurrence of CC
\* and digits that is neither preceded nor followed by a letter, a digit or an
\* underscore, and the empty string when it has no such occurrence.
C7_DelimitedOccurrence ==
    pc = "return" =>
        ret = AllocElseOrg(CodeOfColumn("Cost Center.1", TRUE),
                           CodeOfColumn("Cost Center", TRUE))

\* both columns present with different codes: the allocation code is returned
C7_Witness ==
    /\ pc = "return"
    /\ arg.cols = {"Cost Center", "Cost Center.1"}
    /\ arg.row["Cost Center.1"] = Text(<<"c","c","1">>)
    /\ arg.row["Cost Center"] = Text(<<"C","C","2">>)
    /\ ret = <<"C","C","1">>

(***************************************************************************)
(* C8                                                                      *)
(***************************************************************************)
SecondSpan(S) == FirstSpan(S \ {FirstSpan(S)})

NameOfParts(t, ps) ==
    [first |-> IF Cardinality(ps) >= 2 THEN FirstTokenOf(Span(t, SecondSpan(ps))) ELSE <<>>,
     last |-> IF ps # {} THEN Trimmed(Span(t, FirstSpan(ps))) ELSE <<>>]

NameOfTokens(t, ts) ==
    [first |-> Span(t, FirstSpan(ts)),
     last |-> IF Cardinality(ts) >= 2 THEN Span(t, LastSpan(ts)) ELSE <<>>]

NameOfText(t) ==
    IF NonSpaceAt(t) = {} THEN [first |-> <<>>, last |-> <<>>]
    ELSE IF \E i \in 1..Len(t) : t[i] = "," THEN NameOfParts(t, PartSpans(t))
    ELSE NameOfTokens(t, TokenSpans(t))

\* C8: a missing or blank Worker gives two empty names; with a comma, Last is
\* the first trimmed non-empty comma part and First the first token of the
\* second such part (each empty if there is none); without a comma, First is
\* the first whitespace-delimited token and Last the last one, empty when
\* there is only one token.
C8_SplitWorkerName == pc = "return" => ret = NameOfText(CellText(arg))

\* "First Middle Last" without a comma: the middle token is dropped
C8_Witness ==
    /\ pc = "return"
    /\ arg = Text(<<"J","o","h","n"," ","A","l","l","e","n"," ","S","m","i","t","h">>)
    /\ ret = [first |-> <<"J","o","h","n">>, last |-> <<"S","m","i","t","h">>]

(***************************************************************************)
(* C9                                                                      *)
(***************************************************************************)
\* the budget columns of the table whose cell holds a non-whitespace character
FilledBudgetColumns ==
    {i \in 1..Len(BudgetColumns) :
        /\ BudgetColumns[i] \in arg.cols
        /\ NonSpaceAt(CellText(arg.row[BudgetColumns[i]])) # {}}

\* C9: Budget is the first whitespace-delimited token of the first of Program,
\* Grant, Gift that is a column of the table with a non-blank cell; an absent,
\* missing or blank higher-priority column does not block a lower one; with no
\* such column Budget is empty.
C9_BudgetPriority ==
    pc = "return" =>
        ret = IF FilledBudgetColumns = {} THEN <<>>
              ELSE FirstTokenOf(CellText(arg.row[BudgetColumns[SetMin(FilledBudgetColumns)]]))

\* Program present but blank, Grant absent, Gift filled with two tokens
C9_Witness ==
    /\ pc = "return"
    /\ "Program" \in arg.cols /\ "Grant" \notin arg.cols /\ "Gift" \in arg.cols
    /\ arg.row["Program"] = Text(<<" ">>)
    /\ arg.row["Gift"] = Text(<<"G","9","9"," ","f","u","n","d">>)
    /\ ret = <<"G","9","9">>

(***************************************************************************)
(* C10                                                                     *)
(***************************************************************************)
\* the key of a header row, trimmed, lower-cased, spaces and underscores removed
NormalizedKey(row) ==
    SelectSeq(Lower(Trimmed(Str(row.key))), LAMBDA c : c \notin {" ", "_"})

EffectiveDateRows ==
    {i \in 1..Len(arg) : ~IsNa(arg[i].key) /\ NormalizedKey(arg[i]) = EffectiveDateKey}

\* C10: EffectiveDate is the trimmed text of the value cell of the last row
\* whose normalized key is effectivedate (empty for a blank value cell), and
\* empty when no row has that key.
C10_LastEffectiveDateWins ==
    pc = "return" =>
        ret = IF EffectiveDateRows = {} THEN <<>>
              ELSE Trimmed(CellText(arg[SetMax(EffectiveDateRows)].value))

\* two rows with the key in different spellings: the value of the second
C10_Witness ==
    /\ pc = "return"
    /\ Len(arg) = 2
    /\ arg[1] = [key |-> Text(<<"E","f","f","e","c","t","i","v","e"," ","D","a","t","e">>), value |-> Text(<<"Q","1","/","Q","2">>)]
    /\ arg[2] = [key |-> Text(<<" ","e","f","f","e","c","t","i","v","e","_","d","a","t","e"," ">>), value |-> Text(<<" ","0","1","/","0","5","/","2","0","2","4"," ">>)]
    /\ ret = <<"0","1","/","0","5","/","2","0","2","4">>

====
